---- MODULE Spec2Model ----
(***************************************************************************)
(* Model of src/ClipAiTest1/script.js: the async click handler of          *)
(* #clip-button.  Every activation of the handler is an invocation with    *)
(* its own position; JavaScript runs one invocation at a time until it     *)
(* awaits (line 17, line 25) or returns (line 9, line 40).                 *)
(*                                                                         *)
(* Strings are sequences of tokens: a token is one character of data that  *)
(* comes from outside (the input value, the JSON fields) or one literal    *)
(* piece of a template of the source.                                      *)
(***************************************************************************)
EXTENDS Naturals, Sequences, FiniteSets

VARIABLES
    resultArea,   \* children of #result-area, in document order
    loader,       \* #loader's style.display
    statusText,   \* #status-text's textContent
    alert,        \* the text of the alert() dialog the latest step showed, or ""
    requests,     \* bodies handed to fetch(), in order
    inv,          \* invocations that passed the guard of line 7, in click order
    running,      \* the invocation executing synchronously, 0 when none
    last,         \* the response of the invocation that returned last, until
                  \* line 12 empties the display region again
    event         \* what the latest step was

vars == <<resultArea, loader, statusText, alert, requests, inv, running, last, event>>

\* ------------------------------------------------------------- bounds
MaxInvocations == 2

\* ------------------------------------------------------------- values
Str(s) == [t |-> "string", s |-> s]
Undefined == [t |-> "undefined", s |-> <<>>]

\* The values typed into #youtube-url ("" included).
InputValues == { <<>>, <<"a">>, <<"\"">> }

\* The values of the video_url and error fields of a response.
VideoUrls == { <<"X">>, <<"Y">> }
ErrorTexts == { <<"a">>, <<"<", "a", ">">> }

\* What response.json() can resolve to: an object (a field it lacks reads
\* as undefined) or null.
Object(v, e) == [type |-> "object", video_url |-> v, error |-> e]
JsonNull == [type |-> "null", video_url |-> Undefined, error |-> Undefined]
NoData == [type |-> "none", video_url |-> Undefined, error |-> Undefined]
JsonValues ==
    { Object(Str(v), Undefined) : v \in VideoUrls }
        \cup { Object(Undefined, Str(e)) : e \in ErrorTexts }
        \cup { Object(Undefined, Undefined), JsonNull }

\* What the two awaits can throw, and what reading a field of null throws.
FetchErrors == { "TypeError: Failed to fetch" }
ParseErrors == { "SyntaxError: Unexpected token" }
NullError == "TypeError: Cannot read properties of null"
NoError == "none"

\* ------------------------------------------------------------- helpers
\* Mutant: the guard of line 7 lets every value through.
IsFalsyNever(url) == FALSE

\* `!url` of line 7: of all strings only "" is falsy.
IsFalsy(url) == url = <<>>

\* Mutant: the body is built by concatenation, nothing is escaped.
JsonEscapeNone(s) == s

\* JSON.stringify of a string: quotes and backslashes are escaped.
RECURSIVE JsonEscape(_)
JsonEscape(s) ==
    IF s = <<>> THEN <<>>
    ELSE IF Head(s) \in { "\"", "\\" } THEN <<"\\", Head(s)>> \o JsonEscape(Tail(s))
    ELSE <<Head(s)>> \o JsonEscape(Tail(s))

\* JSON.stringify({ url }) of line 22.
JsonStringifyUrl(url) == <<"{\"url\":\"">> \o JsonEscape(url) \o <<"\"}">>

\* String conversion of a field, by the template literal of line 33 and by
\* the src setter of line 29.
ToString(v) == IF v.t = "undefined" THEN <<"undefined">> ELSE v.s

\* The text that the HTML parser leaves of a string assigned through
\* innerHTML, here followed by "</div>": "<" before a letter opens a tag
\* that runs to the next ">", any other "<" is text.
AsciiAlpha == { "a" }
RECURSIVE HtmlText(_, _)
HtmlText(s, inTag) ==
    IF s = <<>> THEN <<>>
    ELSE IF inTag THEN HtmlText(Tail(s), Head(s) # ">")
    ELSE IF Head(s) = "<" /\ Len(s) >= 2 /\ s[2] \in AsciiAlpha
        THEN HtmlText(Tail(s), TRUE)
    ELSE <<Head(s)>> \o HtmlText(Tail(s), FALSE)

\* Lines 28-30: the video element.
VideoElement(data) ==
    [tag |-> "video", class |-> "", src |-> ToString(data.video_url),
     controls |-> TRUE, text |-> <<>>]

\* Line 33: the element that innerHTML's parse of the template yields.
ErrorElement(data) ==
    [tag |-> "div", class |-> "error-message", src |-> <<>>, controls |-> FALSE,
     text |-> <<"Error: ">> \o HtmlText(ToString(data.error), FALSE)]

\* Mutant: the catch block interpolates the exception into its message.
GenericElementLeak(error) ==
    [tag |-> "div", class |-> "error-message", src |-> <<>>, controls |-> FALSE,
     text |-> <<"An unexpected error occurred: ", error>>]

\* Line 36: the fixed message of the catch block.
GenericText == <<"An unexpected error occurred. Please check the console.">>
GenericElement(error) ==
    [tag |-> "div", class |-> "error-message", src |-> <<>>, controls |-> FALSE,
     text |-> GenericText]

Invocation(url, alone) ==
    [pc |-> "clear", url |-> url, ok |-> FALSE, data |-> NoData,
     error |-> NoError, alone |-> alone]

InFlight(i) == inv[i].pc # "done"
NoEvent == [type |-> "step", id |-> 0, value |-> <<>>]
NoAlert == ""
NoLast == [id |-> 0, kind |-> "none", ok |-> FALSE, data |-> NoData, error |-> NoError]

\* ------------------------------------------------------------- Init
Init ==
    /\ resultArea = <<>>
    /\ loader = ""
    /\ statusText = ""
    /\ alert = NoAlert
    /\ requests = <<>>
    /\ inv = <<>>
    /\ running = 0
    /\ last = NoLast
    /\ event = NoEvent

\* ------------------------------------------------------------- actions
\* Mutant: an in-flight guard, a click while a request is unresolved is
\* ignored.
ClickIgnoreBusy(url) ==
    /\ running = 0
    /\ event' = [type |-> "click", id |-> 0, value |-> url]
    /\ IF IsFalsy(url)
       THEN /\ alert' = "Please enter a YouTube URL."
            /\ UNCHANGED <<resultArea, loader, statusText, requests, inv, running, last>>
       ELSE IF \E j \in 1..Len(inv) : InFlight(j)
       THEN /\ alert' = NoAlert
            /\ UNCHANGED <<resultArea, loader, statusText, requests, inv, running, last>>
       ELSE /\ Len(inv) < MaxInvocations
            /\ inv' = Append(inv, Invocation(url, TRUE))
            /\ running' = Len(inv) + 1
            /\ alert' = NoAlert
            /\ UNCHANGED <<resultArea, loader, statusText, requests, last>>

\* Lines 2-10: the click handler is entered with the input's value.
Click(url) ==
    /\ running = 0
    /\ event' = [type |-> "click", id |-> 0, value |-> url]
    /\ IF IsFalsy(url)
       THEN /\ alert' = "Please enter a YouTube URL."
            /\ UNCHANGED <<resultArea, loader, statusText, requests, inv, running, last>>
       ELSE /\ Len(inv) < MaxInvocations
            /\ inv' = Append(
                  [j \in 1..Len(inv) |->
                      IF InFlight(j) THEN [inv[j] EXCEPT !.alone = FALSE] ELSE inv[j]],
                  Invocation(url, \A j \in 1..Len(inv) : ~InFlight(j)))
            /\ running' = Len(inv) + 1
            /\ alert' = NoAlert
            /\ UNCHANGED <<resultArea, loader, statusText, requests, last>>

\* Mutant: line 12 is missing, the previous result stays.
StepClearKeep(i) ==
    /\ running = i /\ inv[i].pc = "clear"
    /\ inv' = [inv EXCEPT ![i].pc = "showLoader"]
    /\ event' = NoEvent /\ alert' = NoAlert
    /\ UNCHANGED <<resultArea, loader, statusText, requests, running, last>>

\* Line 12.
StepClear(i) ==
    /\ running = i /\ inv[i].pc = "clear"
    /\ resultArea' = <<>>
    /\ inv' = [inv EXCEPT ![i].pc = "showLoader"]
    /\ last' = NoLast
    /\ event' = NoEvent /\ alert' = NoAlert
    /\ UNCHANGED <<loader, statusText, requests, running>>

\* Line 13.
StepShowLoader(i) ==
    /\ running = i /\ inv[i].pc = "showLoader"
    /\ loader' = "flex"
    /\ inv' = [inv EXCEPT ![i].pc = "status"]
    /\ event' = NoEvent /\ alert' = NoAlert
    /\ UNCHANGED <<resultArea, statusText, requests, running, last>>

\* Line 14.
StepStatus(i) ==
    /\ running = i /\ inv[i].pc = "status"
    /\ statusText' = "Processing..."
    /\ inv' = [inv EXCEPT ![i].pc = "fetch"]
    /\ event' = NoEvent /\ alert' = NoAlert
    /\ UNCHANGED <<resultArea, loader, requests, running, last>>

\* Lines 17-23: fetch() is called and the invocation suspends on it.
StepFetch(i) ==
    /\ running = i /\ inv[i].pc = "fetch"
    /\ requests' = Append(requests, JsonStringifyUrl(inv[i].url))
    /\ inv' = [inv EXCEPT ![i].pc = "awaitFetch"]
    /\ running' = 0
    /\ event' = NoEvent /\ alert' = NoAlert
    /\ UNCHANGED <<resultArea, loader, statusText, last>>

\* Lines 17, 25: fetch() resolves with a response; response.json() is
\* called and the invocation suspends on it.
FetchResolve(i, ok) ==
    /\ running = 0 /\ inv[i].pc = "awaitFetch"
    /\ inv' = [inv EXCEPT ![i].pc = "awaitJson", ![i].ok = ok]
    /\ event' = NoEvent /\ alert' = NoAlert
    /\ UNCHANGED <<resultArea, loader, statusText, requests, running, last>>

\* Lines 17, 35: fetch() rejects.
FetchReject(i, e) ==
    /\ running = 0 /\ inv[i].pc = "awaitFetch"
    /\ inv' = [inv EXCEPT ![i].pc = "catch", ![i].error = e]
    /\ running' = i
    /\ event' = NoEvent /\ alert' = NoAlert
    /\ UNCHANGED <<resultArea, loader, statusText, requests, last>>

\* Line 25: response.json() resolves with the parsed body.
JsonResolve(i, data) ==
    /\ running = 0 /\ inv[i].pc = "awaitJson"
    /\ inv' = [inv EXCEPT ![i].pc = "render", ![i].data = data]
    /\ running' = i
    /\ event' = NoEvent /\ alert' = NoAlert
    /\ UNCHANGED <<resultArea, loader, statusText, requests, last>>

\* Lines 25, 35: response.json() rejects, the body is no JSON.
JsonReject(i, e) ==
    /\ running = 0 /\ inv[i].pc = "awaitJson"
    /\ inv' = [inv EXCEPT ![i].pc = "catch", ![i].error = e]
    /\ running' = i
    /\ event' = NoEvent /\ alert' = NoAlert
    /\ UNCHANGED <<resultArea, loader, statusText, requests, last>>

\* Mutant: the video is appended before data.video_url is read, so a
\* null body renders in the success branch and again in the catch block.
StepRenderBoth(i) ==
    /\ running = i /\ inv[i].pc = "render"
    /\ IF inv[i].data.type = "null"
       THEN /\ inv' = [inv EXCEPT ![i].pc = "catch", ![i].error = NullError]
            /\ resultArea' =
                  IF inv[i].ok THEN Append(resultArea, VideoElement(inv[i].data))
                  ELSE resultArea
       ELSE /\ inv' = [inv EXCEPT ![i].pc = "hide"]
            /\ resultArea' =
                  IF inv[i].ok THEN Append(resultArea, VideoElement(inv[i].data))
                  ELSE <<ErrorElement(inv[i].data)>>
    /\ event' = NoEvent /\ alert' = NoAlert
    /\ UNCHANGED <<loader, statusText, requests, running, last>>

\* Lines 27-34: data.video_url and data.error throw when data is null.
StepRender(i) ==
    /\ running = i /\ inv[i].pc = "render"
    /\ IF inv[i].data.type = "null"
       THEN /\ inv' = [inv EXCEPT ![i].pc = "catch", ![i].error = NullError]
            /\ UNCHANGED resultArea
       ELSE /\ inv' = [inv EXCEPT ![i].pc = "hide"]
            /\ resultArea' =
                  IF inv[i].ok THEN Append(resultArea, VideoElement(inv[i].data))
                  ELSE <<ErrorElement(inv[i].data)>>
    /\ event' = NoEvent /\ alert' = NoAlert
    /\ UNCHANGED <<loader, statusText, requests, running, last>>

\* Mutant: a deadline on the outbound call, its expiry handled as a
\* transport error.
StepCatchDeadline(i) ==
    /\ \/ running = i /\ inv[i].pc = "catch"
       \/ running = 0 /\ inv[i].pc = "awaitFetch"
    /\ resultArea' = <<GenericElement(inv[i].error)>>
    /\ inv' = [inv EXCEPT ![i].pc = "hide", ![i].error = "TimeoutError"]
    /\ running' = i
    /\ event' = NoEvent /\ alert' = NoAlert
    /\ UNCHANGED <<loader, statusText, requests, last>>

\* Lines 35-37.
StepCatch(i) ==
    /\ running = i /\ inv[i].pc = "catch"
    /\ resultArea' = <<GenericElement(inv[i].error)>>
    /\ inv' = [inv EXCEPT ![i].pc = "hide"]
    /\ event' = NoEvent /\ alert' = NoAlert
    /\ UNCHANGED <<loader, statusText, requests, running, last>>

\* What became of the invocation: the branch of lines 27-37 that rendered.
Kind(r) ==
    IF r.error # NoError THEN "transport"
    ELSE IF r.ok THEN "success" ELSE "failure"

\* Mutant: line 39 sits inside the try block, an exception skips it.
StepHideInTry(i) ==
    /\ running = i /\ inv[i].pc = "hide"
    /\ loader' = IF Kind(inv[i]) = "transport" THEN loader ELSE "none"
    /\ last' = [id |-> i, kind |-> Kind(inv[i]), ok |-> inv[i].ok,
                data |-> inv[i].data, error |-> inv[i].error]
    /\ inv' = [inv EXCEPT ![i] = [pc |-> "done", url |-> inv[i].url, ok |-> FALSE,
                                  data |-> NoData, error |-> NoError,
                                  alone |-> inv[i].alone]]
    /\ running' = 0
    /\ event' = [type |-> "finish", id |-> i, value |-> <<>>] /\ alert' = NoAlert
    /\ UNCHANGED <<resultArea, statusText, requests>>

\* Mutant: the status text is cleared together with the loader.
StepHideResetStatus(i) ==
    /\ running = i /\ inv[i].pc = "hide"
    /\ loader' = "none"
    /\ statusText' = ""
    /\ last' = [id |-> i, kind |-> Kind(inv[i]), ok |-> inv[i].ok,
                data |-> inv[i].data, error |-> inv[i].error]
    /\ inv' = [inv EXCEPT ![i] = [pc |-> "done", url |-> inv[i].url, ok |-> FALSE,
                                  data |-> NoData, error |-> NoError,
                                  alone |-> inv[i].alone]]
    /\ running' = 0
    /\ event' = [type |-> "finish", id |-> i, value |-> <<>>] /\ alert' = NoAlert
    /\ UNCHANGED <<resultArea, requests>>

\* Lines 39-40: the loader is hidden and the handler returns.
StepHide(i) ==
    /\ running = i /\ inv[i].pc = "hide"
    /\ loader' = "none"
    /\ last' = [id |-> i, kind |-> Kind(inv[i]), ok |-> inv[i].ok,
                data |-> inv[i].data, error |-> inv[i].error]
    /\ inv' = [inv EXCEPT ![i] = [pc |-> "done", url |-> inv[i].url, ok |-> FALSE,
                                  data |-> NoData, error |-> NoError,
                                  alone |-> inv[i].alone]]
    /\ running' = 0
    /\ event' = [type |-> "finish", id |-> i, value |-> <<>>] /\ alert' = NoAlert
    /\ UNCHANGED <<resultArea, statusText, requests>>

Next ==
    \/ \E url \in InputValues : Click(url)
    \/ \E i \in 1..Len(inv) : StepClear(i)
    \/ \E i \in 1..Len(inv) : StepShowLoader(i)
    \/ \E i \in 1..Len(inv) : StepStatus(i)
    \/ \E i \in 1..Len(inv) : StepFetch(i)
    \/ \E i \in 1..Len(inv), ok \in BOOLEAN : FetchResolve(i, ok)
    \/ \E i \in 1..Len(inv), e \in FetchErrors : FetchReject(i, e)
    \/ \E i \in 1..Len(inv), data \in JsonValues : JsonResolve(i, data)
    \/ \E i \in 1..Len(inv), e \in ParseErrors : JsonReject(i, e)
    \/ \E i \in 1..Len(inv) : StepRender(i)
    \/ \E i \in 1..Len(inv) : StepCatch(i)
    \/ \E i \in 1..Len(inv) : StepHide(i)

Spec == Init /\ [][Next]_vars

\* The event loop runs a continuation whose await has settled, and runs it
\* to its next await or to its return.
LiveSpec ==
    /\ Spec
    /\ \A i \in 1..MaxInvocations :
          WF_vars(StepRender(i)) /\ WF_vars(StepCatch(i)) /\ WF_vars(StepHide(i))

\* ------------------------------------------------------------- claims
Issued(i) == inv[i].pc \notin { "clear", "showLoader", "status", "fetch" }
Videos == { k \in 1..Len(resultArea) : resultArea[k].tag = "video" }
ErrorMessages == { k \in 1..Len(resultArea) : resultArea[k].class = "error-message" }
Contains(text, sub) ==
    \E k \in 0..Len(text) :
        k + Len(sub) <= Len(text) /\ SubSeq(text, k + 1, k + Len(sub)) = sub

\* The url that a JSON parser reads back from a request body.
RECURSIVE JsonUnescape(_)
JsonUnescape(s) ==
    IF s = <<>> \/ Head(s) = "\"" THEN <<>>
    ELSE IF Head(s) = "\\" /\ Len(s) >= 2 THEN <<s[2]>> \o JsonUnescape(Tail(Tail(s)))
    ELSE <<Head(s)>> \o JsonUnescape(Tail(s))
RequestUrl(body) ==
    IF Len(body) >= 2 /\ Head(body) = "{\"url\":\"" /\ body[Len(body)] = "\"}"
    THEN JsonUnescape(SubSeq(body, 2, Len(body) - 1))
    ELSE <<"malformed">>

\* C1: every activation with an empty input value shows an alert, issues no
\* request and leaves the display region, the loader and the status text as
\* they were, whatever the state it happens in.
C1_EmptyInputOnlyAlerts ==
    [][(event'.type = "click" /\ event'.value = <<>>)
          => /\ alert' # NoAlert
             /\ UNCHANGED <<resultArea, loader, statusText, requests>>]_vars

\* An empty activation while a request is in flight and a result is shown.
C1_Witness ==
    /\ event.type = "click" /\ event.value = <<>> /\ alert # NoAlert
    /\ \E i \in 1..Len(inv) : InFlight(i)
    /\ resultArea # <<>>

\* C2: the requests issued are, in order, one per activation with a
\* non-empty input value, each with the body {url: that value}; nothing else
\* issues a request.
C2_OneRequestPerActivation ==
    /\ Len(requests) = Cardinality({ i \in 1..Len(inv) : Issued(i) })
    /\ \A i \in 1..Len(requests) : RequestUrl(requests[i]) = inv[i].url
    /\ running = 0 => Len(requests) = Len(inv)

\* Two requests issued, one of a value that needs escaping, after a failure.
C2_Witness ==
    /\ Len(requests) = 2 /\ inv[2].url = <<"\"">>
    /\ last.kind = "transport"

\* The invocation that returned in the latest step, by what it received.
Finished == event.type = "finish"
GotVideoUrl == last.ok /\ last.data.type = "object" /\ last.data.video_url.t = "string"
GotError == ~last.ok /\ last.data.type = "object" /\ last.data.error.t = "string"
TransportFailed == last.error \in FetchErrors \cup ParseErrors

\* The display region holds the one element that renders the outcome of
\* the invocation that returned last.
ShowsOnlyLast ==
    /\ Len(resultArea) = 1
    /\ last.kind = "success" =>
          resultArea[1].tag = "video" /\ resultArea[1].src = ToString(last.data.video_url)
    /\ last.kind = "failure" =>
          resultArea[1].class = "error-message" /\ Head(resultArea[1].text) = "Error: "
    /\ last.kind = "transport" =>
          resultArea[1].class = "error-message" /\ resultArea[1].text = GenericText

\* C3: when an invocation that received a 2xx response {video_url: X}
\* returns, the display region holds exactly one video element, its source
\* is X, and the loader is hidden; overlapping invocations included.
C3_SuccessShowsOneVideo ==
    (Finished /\ GotVideoUrl) =>
        /\ Cardinality(Videos) = 1
        /\ \A k \in Videos : resultArea[k].src = last.data.video_url.s
        /\ loader = "none"

\* C4: when an invocation that received a non-2xx response {error: E}
\* returns, the display region holds an error message whose text includes E,
\* and the loader is hidden.
C4_FailureShowsError ==
    (Finished /\ GotError) =>
        /\ \E k \in ErrorMessages : Contains(resultArea[k].text, last.data.error.s)
        /\ loader = "none"

\* C5: when an invocation whose fetch() rejected or whose body was no JSON
\* returns, the display region holds the fixed generic message, nothing of
\* the exception is displayed, and the loader is hidden.
C5_TransportShowsGeneric ==
    (Finished /\ TransportFailed) =>
        /\ \E k \in ErrorMessages : resultArea[k].text = GenericText
        /\ \A k \in 1..Len(resultArea) : ~Contains(resultArea[k].text, <<last.error>>)
        /\ loader = "none"

\* A 2xx response whose body was no JSON, handled while another invocation
\* is in flight.
C5_Witness ==
    /\ Finished /\ last.ok /\ last.error \in ParseErrors
    /\ resultArea # <<>> /\ loader = "none"
    /\ \E i \in 1..Len(inv) : InFlight(i)

\* C6: the display region reflects the outcome of the request that
\* completed last.  Stated for the states in which the handler is not
\* running and line 12 has not emptied the region since that completion.
C6_DisplayReflectsLast ==
    (running = 0 /\ last.id # 0) => ShowsOnlyLast

\* C7: once two overlapping invocations have both returned, the display
\* region shows only the outcome of the one that returned later.
C7_LastWriteWins ==
    (/\ Len(inv) = 2
     /\ \A i \in 1..2 : inv[i].pc = "done" /\ ~inv[i].alone)
        => ShowsOnlyLast

\* C8: an invocation that passed the guard of line 7 has hidden the loader
\* when it returns, whatever its outcome; and once its await has settled it
\* does return.
C8_LoaderHiddenOnReturn ==
    /\ [](Finished => loader = "none")
    /\ \A i \in 1..MaxInvocations :
          (i <= Len(inv) /\ inv[i].pc \in { "render", "catch" })
              ~> (i <= Len(inv) /\ inv[i].pc = "done")

\* An invocation returned from the catch block with the loader hidden.
C8_Witness == Finished /\ last.kind = "transport" /\ loader = "none"

\* C9: a validated activation empties the display region first, then shows
\* the loader and sets the status text, and only then issues the request;
\* while no other invocation has been in flight since the activation, the
\* region stays empty until the response is handled.
C9_ResetBeforeBusy ==
    \A i \in 1..Len(inv) :
        /\ (inv[i].pc = "clear" /\ inv[i].alone) => loader # "flex"
        /\ inv[i].pc \in { "showLoader", "status", "fetch" } => resultArea = <<>>
        /\ inv[i].pc = "fetch" => loader = "flex" /\ statusText = "Processing..."
        /\ ~Issued(i) => Len(requests) < i
        /\ (inv[i].alone /\ inv[i].pc \notin { "clear", "hide", "done" })
              => resultArea = <<>>

\* A second activation after the first returned: its request is out, the
\* region is empty and the loader is shown.
C9_Witness ==
    /\ Len(inv) = 2 /\ inv[1].pc = "done" /\ inv[2].alone
    /\ inv[2].pc = "awaitJson"
    /\ resultArea = <<>> /\ loader = "flex" /\ statusText = "Processing..."

\* C10: a 2xx response whose JSON body lacks video_url, and a response whose
\* body is no JSON, both end with the generic message and no video element
\* in the display region.
C10_MissingFieldIsGeneric ==
    (/\ Finished
     /\ \/ last.ok /\ last.data.type \in { "object", "null" }
              /\ last.data.video_url.t = "undefined"
        \/ last.error \in ParseErrors)
        => /\ \E k \in ErrorMessages : resultArea[k].text = GenericText
           /\ Videos = {}

\* The positions of an invocation and the moves between them: Requesting
\* is "clear" to "awaitJson", the outcome branches are the moves to "hide".
Transitions ==
    { <<"clear", "showLoader">>, <<"showLoader", "status">>, <<"status", "fetch">>,
      <<"fetch", "awaitFetch">>, <<"awaitFetch", "awaitJson">>, <<"awaitFetch", "catch">>,
      <<"awaitJson", "render">>, <<"awaitJson", "catch">>, <<"render", "hide">>,
      <<"render", "catch">>, <<"catch", "hide">>, <<"hide", "done">> }
RendersOutcome(i) == inv[i].pc \in { "render", "catch" } /\ inv'[i].pc = "hide"

\* C11: an invocation moves only along Idle -> Validating -> (Idle |
\* Requesting -> (Success | Failure | TransportError) -> Idle): it starts
\* with a validated click, the display region is written only by line 12
\* and by the one outcome branch that ends the invocation's request, that
\* branch renders the element of its kind, and when the invocation returns
\* a new activation is accepted.
C11_HandlerStateMachine ==
    [][/\ Len(inv') \in { Len(inv), Len(inv) + 1 }
       /\ Len(inv') = Len(inv) + 1 =>
             /\ inv'[Len(inv')].pc = "clear"
             /\ event'.type = "click" /\ event'.value # <<>>
       /\ \A i \in 1..Len(inv) :
             /\ inv'[i].pc # inv[i].pc => <<inv[i].pc, inv'[i].pc>> \in Transitions
             /\ inv'[i].pc \in { "render", "catch", "hide", "done" } => i <= Len(requests')
             /\ RendersOutcome(i) =>
                   /\ resultArea' # <<>>
                   /\ LET shown == resultArea'[Len(resultArea')] IN
                      IF inv[i].pc = "catch" THEN shown.text = GenericText
                      ELSE IF inv[i].ok THEN shown.tag = "video"
                      ELSE shown.class = "error-message" /\ Head(shown.text) = "Error: "
       /\ resultArea' # resultArea =>
             \E i \in 1..Len(inv) : inv[i].pc = "clear" \/ RendersOutcome(i)
       /\ event'.type = "finish" =>
             /\ running' = 0
             /\ \A i \in 1..Len(inv') : inv'[i].pc \in { "awaitFetch", "awaitJson", "done" }
      ]_vars

\* The second invocation returned after the first had returned: the handler
\* was invoked again after an outcome, and ran to an outcome again.
C11_Witness ==
    /\ Finished /\ last.id = 2 /\ inv[2].alone
    /\ inv[1].pc = "done" /\ running = 0 /\ resultArea # <<>>

\* The invocations whose request is out and whose await has not settled.
Unresolved == { i \in 1..Len(inv) : inv[i].pc \in { "awaitFetch", "awaitJson" } }

\* C12: there is no in-flight guard, queue or cancellation.  A click with a
\* non-empty value while k >= 1 requests are unresolved starts an invocation
\* and leaves the others as they are; that invocation runs lines 12-17
\* before anything else happens, empties the display region and issues one
\* more request, so that k + 1 are unresolved; and each invocation renders
\* the response it received itself.
C12_NoInFlightGuard ==
    [][/\ (event'.type = "click" /\ event'.value # <<>> /\ Unresolved # {}) =>
             /\ Len(inv') = Len(inv) + 1 /\ running' = Len(inv')
             /\ \A j \in 1..Len(inv) : inv'[j].pc = inv[j].pc
             /\ Unresolved' = Unresolved
       /\ \A i \in 1..Len(inv) :
             /\ inv[i].pc \in { "clear", "showLoader", "status", "fetch" } =>
                   /\ inv'[i].pc # inv[i].pc
                   /\ \A j \in 1..Len(inv) \ { i } : inv'[j] = inv[j]
             /\ (inv[i].pc = "clear" /\ inv'[i].pc # "clear") => resultArea' = <<>>
             /\ (inv[i].pc = "fetch" /\ inv'[i].pc # "fetch") =>
                   /\ Len(requests') = Len(requests) + 1
                   /\ Unresolved' = Unresolved \cup { i }
             /\ (RendersOutcome(i) /\ inv[i].pc = "render") =>
                   LET shown == resultArea'[Len(resultArea')] IN
                   IF inv[i].ok THEN shown.src = ToString(inv[i].data.video_url)
                   ELSE shown = ErrorElement(inv[i].data)
      ]_vars

\* Two requests are unresolved at once, the second issued while the first
\* was; the display region is empty.
C12_Witness ==
    /\ Len(inv) = 2 /\ Unresolved = { 1, 2 } /\ Len(requests) = 2
    /\ ~inv[2].alone /\ resultArea = <<>> /\ running = 0

\* C13: the loader is visible if and only if at least one request is in
\* flight.  Stated for the states in which no invocation is running (between
\* lines 13 and 17 the loader is shown and the request is not yet out).
C13_LoaderBracketsRequests ==
    running = 0 => (loader = "flex" <=> \E i \in 1..Len(inv) : InFlight(i))

\* A step of the handler's own code, as opposed to a click and to the
\* settling of an await.
HandlerStep(i) ==
    \/ StepClear(i) \/ StepShowLoader(i) \/ StepStatus(i) \/ StepFetch(i)
    \/ StepRender(i) \/ StepCatch(i) \/ StepHide(i)

NeverOverlapped == \A i \in 1..Len(inv) : inv[i].alone

C16_StatusTextStays ==
    [][/\ statusText' # statusText =>
             /\ statusText' = "Processing..."
             /\ \E i \in 1..Len(inv) : inv[i].pc = "status" /\ inv'[i].pc = "fetch"
       /\ statusText = "Processing..." => statusText' = "Processing..."
       /\ (Len(inv') >= 1 /\ \A i \in 1..Len(inv') : inv'[i].pc = "done") =>
             statusText' = "Processing..." /\ loader' = "none"
      ]_vars

\* Both invocations have returned, one of them from the catch block; the
\* loader is hidden and the status text still reads "Processing...".
C16_Witness ==
    /\ Len(inv) = 2 /\ \A i \in 1..2 : inv[i].pc = "done"
    /\ Finished /\ last.kind = "transport"
    /\ loader = "none" /\ statusText = "Processing..."

====
